---- MODULE Spec2Model ----
(***************************************************************************)
(* The eSpeak JNI bridge of NekoSpeak (app/src/main/cpp/espeak_wrapper.c): *)
(* the two native methods initialize and textToPhonemes, the C strings and *)
(* the malloc'ed phoneme buffer they work on, and the eSpeak engine they   *)
(* call.  The engine is an external library: each of its entry points is   *)
(* modelled by every outcome its interface allows.                         *)
(*                                                                         *)
(* Strings are modelled byte by byte.  The phoneme buffer is an array of   *)
(* MAX_PHONEME_BUFFER bytes, uninitialised after malloc, and strcat and    *)
(* strlen work on it as the C library does (scan for the terminator, copy  *)
(* bytes, write a new terminator).  The capacity is scaled down from the   *)
(* 16384 of the source so that chunk lengths around the capacity can be    *)
(* enumerated; every guard of the code is written relative to it.          *)
(*                                                                         *)
(* GetStringUTFChars is taken to succeed (the code never tests its result).*)
(***************************************************************************)
EXTENDS Integers, Sequences, FiniteSets, TLC

\* ------------------------------------------------------------------ bounds
\* Capacity of the phoneme buffer in bytes (16384 in the source, line 43).
MAX_PHONEME_BUFFER == 8
\* Longest chunk the engine returns from one conversion call.
MaxChunkLen == 8

Threads == {1, 2}
Languages == {"en", "fr"}
Paths == {"/data/a", "/data/b"}
\* Bytes a phoneme chunk is made of.
Alphabet == {"a"}
NUL == "NUL"
Uninit == "??"
Index == 0 .. (MAX_PHONEME_BUFFER - 1)
\* Heap blocks malloc can hand out, one per thread at most; 0 is the NULL pointer.
Blocks == Threads

EE_OK == "EE_OK"
VoiceStatus == {"EE_OK", "EE_INTERNAL_ERROR", "EE_NOT_FOUND"}
\* espeak_Initialize returns the sample rate, or -1 (EE_INTERNAL_ERROR).
InitResults == {-1, 0, 22050}
AUDIO_OUTPUT_SYNCHRONOUS == "AUDIO_OUTPUT_SYNCHRONOUS"
espeakCHARS_UTF8 == "espeakCHARS_UTF8"
espeakPHONEMES_IPA == "0x02"

MsgVoice == "Failed to set voice: %s"
MsgAlloc == "Failed to allocate phoneme buffer"
MsgOverflow == "Phoneme buffer overflow"

\* ------------------------------------------------------------- C strings
\* A const char * the engine returns: NULL, or a pointer to a string.
NullPtr == [null |-> TRUE, str |-> <<>>]
StrPtr(s) == [null |-> FALSE, str |-> s]
SeqsUpTo(S, n) == UNION {[1 .. k -> S] : k \in 0 .. n}
\* What one conversion call may return: NULL, "" or a non-empty chunk of at
\* most n bytes.
EngineChunks(n) == {NullPtr} \cup {StrPtr(s) : s \in SeqsUpTo(Alphabet, n)}

\* malloc(MAX_PHONEME_BUFFER): the block's bytes are indeterminate.
FreshBlock == [i \in Index |-> Uninit]

\* strlen on an array: the index of the first terminator (MAX_PHONEME_BUFFER if
\* the scan would leave the array).
StrLenArr(arr) ==
    IF \E i \in Index : arr[i] = NUL
    THEN CHOOSE i \in Index : arr[i] = NUL /\ \A j \in 0 .. (i - 1) : arr[j] # NUL
    ELSE MAX_PHONEME_BUFFER

\* The string an array holds, as NewStringUTF reads it: the bytes before the
\* first terminator.
CString(arr) == [k \in 1 .. StrLenArr(arr) |-> arr[k - 1]]

\* strcat(dest, src): src's bytes and a terminator are written at dest's
\* terminator.  Bytes that would land past the end of the array are dropped
\* here and reported by StrCatOverruns.
StrCat(arr, s) ==
    LET n == StrLenArr(arr)
    IN [i \in Index |->
          IF i >= n /\ i < n + Len(s) THEN s[i - n + 1]
          ELSE IF i = n + Len(s) THEN NUL
          ELSE arr[i]]

StrCatOverruns(arr, s) == StrLenArr(arr) + Len(s) >= MAX_PHONEME_BUFFER

\* The scan for the terminator never reads an uninitialised byte.
Terminated(arr) ==
    /\ \E i \in Index : arr[i] = NUL
    /\ \A j \in 0 .. (StrLenArr(arr) - 1) : arr[j] # Uninit

\* ---------------------------------------------------------------- state
VARIABLES
    serialized,   \* the embedding application serialises the native calls
    voice,        \* the engine's active voice (process-wide)
    heap,         \* heap[b]: the bytes of block b
    free_blocks,  \* blocks malloc may hand out
    writers,      \* writers[b]: the threads that wrote block b since its malloc
    pc,           \* pc[t]: where thread t is in its native call
    jarg,         \* the managed string the call was given (dataPath or language)
    path,         \* initialize: const char *path
    c_lang,       \* textToPhonemes: const char *c_lang
    text_ptr,     \* textToPhonemes: the engine's cursor, "NULL" or "text"
    buffer,       \* textToPhonemes: char *buffer (0 is NULL)
    current_len,  \* textToPhonemes: size_t current_len
    phonemes,     \* textToPhonemes: the chunk the last conversion returned
    result,       \* the value the call returns
    res,          \* res[t][r]: state of the call's native resource r
    misuse,       \* a resource was read while not held
    overrun,      \* a write went past the end of the buffer
    ecalls,       \* the engine calls this invocation has made, in order
    log,          \* the messages this invocation has logged, in order
    overlapped,   \* another native call was in progress during this one
    foreign       \* a conversion of this call ran under a voice it did not select

vars == <<serialized, voice, heap, free_blocks, writers, pc, jarg, path, c_lang,
          text_ptr, buffer, current_len, phonemes, result, res, misuse,
          overrun, ecalls, log, overlapped, foreign>>

shared == <<serialized, voice, heap, free_blocks, writers>>

Resources == {"path", "c_text", "c_lang", "buffer"}
NoRes == [r \in Resources |-> "none"]
NoResult == [kind |-> "none", int |-> 0, str |-> <<>>]
IntResult(n) == [kind |-> "jint", int |-> n, str |-> <<>>]
\* NewStringUTF(env, p): a managed string holding the bytes p points to.
NewStringUTF(s) == [kind |-> "jstring", int |-> 0, str |-> s]
\* GetStringUTFChars(env, js, 0): the bytes of the managed string js.
GetStringUTFChars(js) == js.str

\* A release that forgets the phoneme buffer.
Release_LeakBuffer(rs, r) ==
    IF r = "buffer" THEN rs
    ELSE [rs EXCEPT ![r] = IF @ = "held" THEN "released" ELSE "bad"]

Acquire(rs, r) == [rs EXCEPT ![r] = IF @ = "none" THEN "held" ELSE "bad"]
Release(rs, r) == [rs EXCEPT ![r] = IF @ = "held" THEN "released" ELSE "bad"]
Held(rs, r) == rs[r] = "held"

\* A native call of thread t is in progress ("done" is its return statement).
Busy(t) == pc[t] # "idle"
OthersBusy(t) == \E u \in Threads \ {t} : Busy(u)
\* Every call in progress learns that it now overlaps another one.
MarkOverlap(t) ==
    [u \in Threads |->
        IF u = t THEN OthersBusy(t)
        ELSE overlapped[u] \/ Busy(u)]

\* The state before any native call.
InitState ==
    /\ voice = "none"
    /\ heap = [b \in Blocks |-> FreshBlock]
    /\ free_blocks = Blocks
    /\ writers = [b \in Blocks |-> {}]
    /\ pc = [t \in Threads |-> "idle"]
    /\ jarg = [t \in Threads |-> NoResult]
    /\ path = [t \in Threads |-> ""]
    /\ c_lang = [t \in Threads |-> ""]
    /\ text_ptr = [t \in Threads |-> "NULL"]
    /\ buffer = [t \in Threads |-> 0]
    /\ current_len = [t \in Threads |-> 0]
    /\ phonemes = [t \in Threads |-> NullPtr]
    /\ result = [t \in Threads |-> NoResult]
    /\ res = [t \in Threads |-> NoRes]
    /\ misuse = [t \in Threads |-> FALSE]
    /\ overrun = [t \in Threads |-> FALSE]
    /\ ecalls = [t \in Threads |-> <<>>]
    /\ log = [t \in Threads |-> <<>>]
    /\ overlapped = [t \in Threads |-> FALSE]
    /\ foreign = [t \in Threads |-> FALSE]

Init == serialized = TRUE /\ InitState

InitAny == serialized \in BOOLEAN /\ InitState

\* ------------------------------------------------------------ the engine
ECall(fn, arg, ret) == [fn |-> fn, arg |-> arg, ret |-> ret]

\* The longest chunk of a conversion call; interleaved calls get single-byte
\* chunks, which keeps the product of the two calls' states small.
ChunkLenLimit == IF serialized THEN MaxChunkLen ELSE 1

\* One static buffer for every call.
Malloc_Static(fb) == {1}

\* malloc: NULL, or the first free block.
Malloc(fb) ==
    {0} \cup (IF fb = {} THEN {}
              ELSE {CHOOSE b \in fb : \A c \in fb : b <= c})

\* ------------------------------------------------------------ initialize
\* Line 12: the call is entered and the path's UTF chars are obtained.
InitializeEnter(t) ==
    /\ pc[t] = "idle"
    /\ serialized => ~OthersBusy(t)
    /\ \E dataPath \in {NewStringUTF(p) : p \in Paths} :
          /\ jarg' = [jarg EXCEPT ![t] = dataPath]
          /\ path' = [path EXCEPT ![t] = GetStringUTFChars(dataPath)]
    /\ res' = [res EXCEPT ![t] = Acquire(@, "path")]
    /\ overlapped' = MarkOverlap(t)
    /\ pc' = [pc EXCEPT ![t] = "i_engine"]
    /\ UNCHANGED <<shared, c_lang, text_ptr, buffer, current_len, phonemes,
                   result, misuse, overrun, ecalls, log, foreign>>

\* An initialisation that ignores the path it was given.
InitializeArgs_FixedPath(p) == <<AUDIO_OUTPUT_SYNCHRONOUS, 0, "/data/a", 0>>

\* The arguments of line 13's espeak_Initialize call.
InitializeArgs(p) == <<AUDIO_OUTPUT_SYNCHRONOUS, 0, p, 0>>

\* Line 13: int result = espeak_Initialize(AUDIO_OUTPUT_SYNCHRONOUS, 0, path, 0).
InitializeEngine(t) ==
    /\ pc[t] = "i_engine"
    /\ \E st \in InitResults :
          /\ ecalls' = [ecalls EXCEPT ![t] =
                 Append(@, ECall("espeak_Initialize", InitializeArgs(path[t]), st))]
          /\ result' = [result EXCEPT ![t] = IntResult(st)]
    /\ misuse' = [misuse EXCEPT ![t] = @ \/ ~Held(res[t], "path")]
    /\ pc' = [pc EXCEPT ![t] = "i_release"]
    /\ UNCHANGED <<shared, path, c_lang, text_ptr, buffer, current_len,
                   phonemes, res, overrun, log, overlapped, foreign,
                   jarg>>

\* Lines 14-15: the path is released and result is returned.
InitializeRelease(t) ==
    /\ pc[t] = "i_release"
    /\ res' = [res EXCEPT ![t] = Release(@, "path")]
    /\ pc' = [pc EXCEPT ![t] = "done"]
    /\ UNCHANGED <<shared, path, c_lang, text_ptr, buffer, current_len,
                   phonemes, result, misuse, overrun, ecalls, log, overlapped, foreign,
                   jarg>>

\* -------------------------------------------------------- textToPhonemes
\* Lines 23-24: the call is entered, c_text and c_lang are obtained.
TextToPhonemesEnter(t) ==
    /\ pc[t] = "idle"
    /\ serialized => ~OthersBusy(t)
    /\ \E language \in {NewStringUTF(l) : l \in Languages} :
          /\ jarg' = [jarg EXCEPT ![t] = language]
          /\ c_lang' = [c_lang EXCEPT ![t] = GetStringUTFChars(language)]
    /\ res' = [res EXCEPT ![t] = Acquire(Acquire(@, "c_text"), "c_lang")]
    /\ overlapped' = MarkOverlap(t)
    /\ pc' = [pc EXCEPT ![t] = "set_voice"]
    /\ UNCHANGED <<shared, path, text_ptr, buffer, current_len, phonemes,
                   result, misuse, overrun, ecalls, log, foreign>>

\* A status test that knows one failure code only.
VoiceSelected_NotFoundOnly(st) == st # "EE_NOT_FOUND"

\* Line 27: the test of espeak_SetVoiceByName's status.
VoiceSelected(st) == st = EE_OK

\* Lines 27-32: espeak_SetVoiceByName(c_lang); on any status but EE_OK the
\* failure is logged, both strings are released and "" is returned.
SetVoice(t) ==
    /\ pc[t] = "set_voice"
    /\ misuse' = [misuse EXCEPT ![t] = @ \/ ~Held(res[t], "c_lang")]
    /\ \E st \in VoiceStatus :
          /\ ecalls' = [ecalls EXCEPT ![t] =
                 Append(@, ECall("espeak_SetVoiceByName", c_lang[t], st))]
          \* the engine: the voice changes when it reports success
          /\ voice' = (IF st = EE_OK THEN c_lang[t] ELSE voice)
          /\ IF VoiceSelected(st)
             THEN /\ pc' = [pc EXCEPT ![t] = "alloc"]
                  /\ UNCHANGED <<log, res, result>>
             ELSE /\ log' = [log EXCEPT ![t] = Append(@, MsgVoice)]
                  /\ res' = [res EXCEPT ![t] = Release(Release(@, "c_text"), "c_lang")]
                  /\ result' = [result EXCEPT ![t] = NewStringUTF(<<>>)]
                  /\ pc' = [pc EXCEPT ![t] = "done"]
    /\ UNCHANGED <<serialized, heap, free_blocks, writers, path, c_lang,
                   text_ptr, buffer, current_len, phonemes, overrun, overlapped, foreign,
                   jarg>>

\* Lines 39-52: text_ptr = c_text; buffer = malloc(MAX_PHONEME_BUFFER); on NULL
\* the failure is logged, both strings are released and "" is returned;
\* otherwise buffer[0] = '\0' and current_len = 0.
AllocBuffer(t) ==
    /\ pc[t] = "alloc"
    /\ text_ptr' = [text_ptr EXCEPT ![t] = "text"]
    /\ \E b \in Malloc(free_blocks) :
          /\ buffer' = [buffer EXCEPT ![t] = b]
          /\ IF b = 0
             THEN /\ log' = [log EXCEPT ![t] = Append(@, MsgAlloc)]
                  /\ res' = [res EXCEPT ![t] = Release(Release(@, "c_text"), "c_lang")]
                  /\ result' = [result EXCEPT ![t] = NewStringUTF(<<>>)]
                  /\ pc' = [pc EXCEPT ![t] = "done"]
                  /\ UNCHANGED <<heap, free_blocks, writers, current_len>>
             ELSE /\ free_blocks' = free_blocks \ {b}
                  /\ heap' = [heap EXCEPT ![b] = [FreshBlock EXCEPT ![0] = NUL]]
                  /\ writers' = [writers EXCEPT ![b] = {t}]
                  /\ current_len' = [current_len EXCEPT ![t] = 0]
                  /\ res' = [res EXCEPT ![t] = Acquire(@, "buffer")]
                  /\ pc' = [pc EXCEPT ![t] = "loop"]
                  /\ UNCHANGED <<log, result>>
    /\ UNCHANGED <<serialized, voice, path, c_lang, phonemes, misuse, overrun,
                   ecalls, overlapped, foreign,
                   jarg>>

\* Line 54: while (text_ptr != NULL) fails and the loop is left.
LoopExit(t) ==
    /\ pc[t] = "loop"
    /\ text_ptr[t] = "NULL"
    /\ pc' = [pc EXCEPT ![t] = "finish"]
    /\ UNCHANGED <<shared, path, c_lang, text_ptr, buffer, current_len,
                   phonemes, result, res, misuse, overrun, ecalls, log, overlapped, foreign,
                   jarg>>

\* Lines 54-57: phonemes = espeak_TextToPhonemes(&text_ptr, espeakCHARS_UTF8,
\* 0x02).  The bridge never looks at the text: the engine reads it through the
\* cursor, returns any chunk and leaves the cursor in the text or sets it to
\* NULL, so the chunk sequence of every text is among the behaviours.
Convert(t) ==
    /\ pc[t] = "loop"
    /\ text_ptr[t] # "NULL"
    /\ \E ph \in EngineChunks(ChunkLenLimit),
          cursor \in {"text", "NULL"} :
          /\ phonemes' = [phonemes EXCEPT ![t] = ph]
          /\ text_ptr' = [text_ptr EXCEPT ![t] = cursor]
          /\ ecalls' = [ecalls EXCEPT ![t] =
                 Append(@, ECall("espeak_TextToPhonemes",
                                 <<espeakCHARS_UTF8, espeakPHONEMES_IPA>>, ph))]
    /\ misuse' = [misuse EXCEPT ![t] = @ \/ ~Held(res[t], "c_text")]
    /\ foreign' = [foreign EXCEPT ![t] = @ \/ voice # c_lang[t]]
    /\ pc' = [pc EXCEPT ![t] = "append"]
    /\ UNCHANGED <<shared, path, c_lang, buffer, current_len, result, res,
                   overrun, log, overlapped,
                   jarg>>

\* An end test that forgets the empty chunk.
EndOfChunks_NullOnly(ph) == ph.null

\* Line 59: phonemes == NULL || strlen(phonemes) == 0.
EndOfChunks(ph) == ph.null \/ Len(ph.str) = 0

\* Line 64: the guard of the separator.
NeedsSeparator(cl, len) == cl > 0 /\ cl + len + 2 < MAX_PHONEME_BUFFER

\* An overflow branch that does not log.
LogOverflow_Silent(l) == l

\* Line 73: LOGE("Phoneme buffer overflow").
LogOverflow(l) == Append(l, MsgOverflow)

\* A guard that lets the chunk fill the buffer to its last byte.
ChunkFits_Inclusive(cl, len) == cl + len + 1 <= MAX_PHONEME_BUFFER

\* A guard that forgets the terminating byte.
ChunkFits_NoTerminator(cl, len) == cl + len <= MAX_PHONEME_BUFFER

\* Line 69: the guard of the chunk.
ChunkFits(cl, len) == cl + len + 1 < MAX_PHONEME_BUFFER

\* Lines 59-75: the rest of one iteration of the loop.
AppendChunk(t) ==
    /\ pc[t] = "append"
    /\ IF EndOfChunks(phonemes[t])
       THEN /\ pc' = [pc EXCEPT ![t] = "finish"]
            /\ UNCHANGED <<heap, writers, current_len, overrun, log, misuse>>
       ELSE LET b == buffer[t]
                len == Len(phonemes[t].str)
                sep == NeedsSeparator(current_len[t], len)
                buf1 == IF sep THEN StrCat(heap[b], <<" ">>) ELSE heap[b]
                cl1 == IF sep THEN current_len[t] + 1 ELSE current_len[t]
                over1 == sep /\ StrCatOverruns(heap[b], <<" ">>)
                fits == ChunkFits(cl1, len)
            IN /\ misuse' = [misuse EXCEPT ![t] = @ \/ ~Held(res[t], "buffer")]
               /\ writers' = [writers EXCEPT ![b] =
                                 IF sep \/ fits THEN @ \cup {t} ELSE @]
               /\ IF fits
                  THEN /\ heap' = [heap EXCEPT ![b] = StrCat(buf1, phonemes[t].str)]
                       /\ current_len' = [current_len EXCEPT ![t] = cl1 + len]
                       /\ overrun' = [overrun EXCEPT ![t] =
                              @ \/ over1 \/ StrCatOverruns(buf1, phonemes[t].str)]
                       /\ pc' = [pc EXCEPT ![t] = "loop"]
                       /\ UNCHANGED log
                  ELSE /\ heap' = [heap EXCEPT ![b] = buf1]
                       /\ current_len' = [current_len EXCEPT ![t] = cl1]
                       /\ overrun' = [overrun EXCEPT ![t] = @ \/ over1]
                       /\ log' = [log EXCEPT ![t] = LogOverflow(@)]
                       /\ pc' = [pc EXCEPT ![t] = "finish"]
    /\ UNCHANGED <<serialized, voice, free_blocks, path, c_lang, text_ptr,
                   buffer, phonemes, result, res, ecalls, overlapped, foreign,
                   jarg>>

\* Lines 86-91: result = NewStringUTF(buffer); free(buffer); both strings are
\* released; result is returned.
Finish(t) ==
    /\ pc[t] = "finish"
    /\ LET b == buffer[t]
       IN /\ result' = [result EXCEPT ![t] = NewStringUTF(CString(heap[b]))]
          /\ misuse' = [misuse EXCEPT ![t] =
                 @ \/ ~Held(res[t], "buffer") \/ ~Terminated(heap[b])]
          /\ heap' = [heap EXCEPT ![b] = FreshBlock]
          /\ free_blocks' = free_blocks \cup {b}
          /\ writers' = [writers EXCEPT ![b] = {}]
    /\ res' = [res EXCEPT ![t] =
                  Release(Release(Release(@, "buffer"), "c_text"), "c_lang")]
    /\ pc' = [pc EXCEPT ![t] = "done"]
    /\ UNCHANGED <<serialized, voice, path, c_lang, text_ptr, buffer,
                   current_len, phonemes, overrun, ecalls, log, overlapped, foreign,
                   jarg>>

\* The native call returns to its caller; its locals are gone.
Return(t) ==
    /\ pc[t] = "done"
    /\ pc' = [pc EXCEPT ![t] = "idle"]
    /\ jarg' = [jarg EXCEPT ![t] = NoResult]
    /\ path' = [path EXCEPT ![t] = ""]
    /\ c_lang' = [c_lang EXCEPT ![t] = ""]
    /\ text_ptr' = [text_ptr EXCEPT ![t] = "NULL"]
    /\ buffer' = [buffer EXCEPT ![t] = 0]
    /\ current_len' = [current_len EXCEPT ![t] = 0]
    /\ phonemes' = [phonemes EXCEPT ![t] = NullPtr]
    /\ result' = [result EXCEPT ![t] = NoResult]
    /\ res' = [res EXCEPT ![t] = NoRes]
    /\ misuse' = [misuse EXCEPT ![t] = FALSE]
    /\ overrun' = [overrun EXCEPT ![t] = FALSE]
    /\ ecalls' = [ecalls EXCEPT ![t] = <<>>]
    /\ log' = [log EXCEPT ![t] = <<>>]
    /\ overlapped' = [overlapped EXCEPT ![t] = FALSE]
    /\ foreign' = [foreign EXCEPT ![t] = FALSE]
    /\ UNCHANGED shared

Next ==
    \E t \in Threads :
        \/ InitializeEnter(t)
        \/ InitializeEngine(t)
        \/ InitializeRelease(t)
        \/ TextToPhonemesEnter(t)
        \/ SetVoice(t)
        \/ AllocBuffer(t)
        \/ LoopExit(t)
        \/ Convert(t)
        \/ AppendChunk(t)
        \/ Finish(t)
        \/ Return(t)

\* The embedding application serialises the native calls.
Spec == Init /\ [][Next]_vars

\* The steps of thread t's native call once it has been entered.
Run(t) ==
    \/ InitializeEngine(t)
    \/ InitializeRelease(t)
    \/ SetVoice(t)
    \/ AllocBuffer(t)
    \/ LoopExit(t)
    \/ Convert(t)
    \/ AppendChunk(t)
    \/ Finish(t)
    \/ Return(t)

\* A native call that has been entered keeps running: the thread is scheduled
\* and every engine and library call returns.
SpecFair == Init /\ [][Next]_vars /\ \A t \in Threads : WF_vars(Run(t))

\* Whether the calls are serialised is up to the embedding application.
SpecAny == InitAny /\ [][Next]_vars

\* ---------------------------------------------------------- observations
\* What the conversion calls of thread t's invocation returned, in order.
ConvRets(t) ==
    LET cs == SelectSeq(ecalls[t], LAMBDA e : e.fn = "espeak_TextToPhonemes")
    IN [i \in 1 .. Len(cs) |-> cs[i].ret]
NumConv(t) == Len(ConvRets(t))
IsChunk(ph) == ~ph.null /\ Len(ph.str) > 0
\* The non-empty chunks among them.
ChunksOf(t) ==
    LET cs == SelectSeq(ConvRets(t), IsChunk)
    IN [i \in 1 .. Len(cs) |-> cs[i].str]
RECURSIVE Join(_)
\* chunk1 + " " + chunk2 + ... + " " + chunkN
Join(cs) ==
    IF cs = <<>> THEN <<>>
    ELSE IF Len(cs) = 1 THEN cs[1]
    ELSE cs[1] \o <<" ">> \o Join(Tail(cs))
IsStrictPrefix(p, s) == Len(p) < Len(s) /\ SubSeq(s, 1, Len(p)) = p
Logged(t, msg) == \E i \in 1 .. Len(log[t]) : log[t][i] = msg
\* Thread t is at the return statement of textToPhonemes / of initialize.
DoneTextToPhonemes(t) == pc[t] = "done" /\ result[t].kind = "jstring"
DoneInitialize(t) == pc[t] = "done" /\ result[t].kind = "jint"
\* The accumulation loop of thread t is running on an allocated buffer.
LoopPcs == {"loop", "append", "finish"}
VoiceFailed(t) ==
    \E i \in 1 .. Len(ecalls[t]) :
        /\ ecalls[t][i].fn = "espeak_SetVoiceByName"
        /\ ecalls[t][i].ret # EE_OK

\* ------------------------------------------------------------------- C1
\* C1: if espeak_SetVoiceByName returns anything but EE_OK, textToPhonemes is at
\* its return statement with the empty string, has logged the failure, has made
\* no conversion call and has allocated no phoneme buffer.
C1_VoiceFailureReturnsEmpty ==
    \A t \in Threads :
        VoiceFailed(t) =>
            /\ pc[t] = "done"
            /\ result[t] = NewStringUTF(<<>>)
            /\ log[t] = <<MsgVoice>>
            /\ NumConv(t) = 0
            /\ buffer[t] = 0
            /\ res[t]["buffer"] = "none"

C1_Witness ==
    \E t \in Threads :
        /\ VoiceFailed(t)
        /\ pc[t] = "done"
        /\ ecalls[t][1].ret = "EE_INTERNAL_ERROR"

\* ------------------------------------------------------------------- C4
\* C4: while the accumulation loop runs, the buffer's string and its terminator
\* lie inside the MAX_PHONEME_BUFFER bytes, no write has gone past the end of
\* the buffer, and current_len is the length of the buffer's string.
C4_BufferWithinCapacity ==
    \A t \in Threads :
        /\ ~overrun[t]
        /\ pc[t] \in LoopPcs =>
              /\ Terminated(heap[buffer[t]])
              /\ StrLenArr(heap[buffer[t]]) + 1 <= MAX_PHONEME_BUFFER
              /\ current_len[t] = StrLenArr(heap[buffer[t]])

C4_Witness ==
    \E t \in Threads :
        /\ pc[t] = "loop"
        /\ NumConv(t) >= 2
        /\ current_len[t] = MAX_PHONEME_BUFFER - 2
        /\ current_len[t] = StrLenArr(heap[buffer[t]])

\* ------------------------------------------------------------------- C5
\* C5: no resource is released twice or released without being held, none is
\* read while not held, and at the return statement of textToPhonemes the text
\* chars and the language chars are released and the phoneme buffer is released
\* if it was allocated.
C5_ResourcesReleasedOnce ==
    \A t \in Threads :
        /\ ~misuse[t]
        /\ \A r \in Resources : res[t][r] # "bad"
        /\ DoneTextToPhonemes(t) =>
              /\ res[t]["c_text"] = "released"
              /\ res[t]["c_lang"] = "released"
              /\ res[t]["buffer"] = (IF buffer[t] = 0 THEN "none" ELSE "released")
              /\ buffer[t] # 0 => buffer[t] \in free_blocks

C5_Witness ==
    \E t \in Threads :
        /\ DoneTextToPhonemes(t)
        /\ Logged(t, MsgOverflow)
        /\ res[t]["buffer"] = "released"
        /\ Len(result[t].str) > 0

\* ------------------------------------------------------------------- C6
\* C6: initialize makes one espeak_Initialize call, with the synchronous output
\* mode, buffer length 0, the bytes of dataPath and options 0, while it holds
\* the path; it returns the value that call returned, and the path is released
\* once, after the call and before the return.
C6_InitializePassesThrough ==
    \A t \in Threads :
        /\ pc[t] = "i_engine" => ecalls[t] = <<>> /\ res[t]["path"] = "held"
        /\ pc[t] = "i_release" => Len(ecalls[t]) = 1 /\ res[t]["path"] = "held"
        /\ DoneInitialize(t) =>
              /\ ecalls[t] = <<ECall("espeak_Initialize",
                                     <<AUDIO_OUTPUT_SYNCHRONOUS, 0, jarg[t].str, 0>>,
                                     result[t].int)>>
              /\ res[t]["path"] = "released"
              /\ ~misuse[t]

C6_Witness ==
    \E t \in Threads :
        /\ DoneInitialize(t)
        /\ result[t].int = -1
        /\ jarg[t].str = "/data/b"

\* The call of thread t got past voice selection and malloc.
Accumulated(t) == DoneTextToPhonemes(t) /\ buffer[t] # 0
\* The engine has signalled the end of the text to thread t's invocation: its
\* last conversion returned NULL or "", or set the cursor to NULL.
EngineExhausted(t) ==
    /\ NumConv(t) > 0
    /\ \/ text_ptr[t] = "NULL"
       \/ EndOfChunks(ConvRets(t)[NumConv(t)])

\* ------------------------------------------------------------------- C2
\* C2: when voice selection and malloc succeed, the engine returns N >= 1
\* non-empty chunks and then signals the end, and the single-space join of the
\* chunks plus its terminator is at most MAX_PHONEME_BUFFER bytes,
\* textToPhonemes returns exactly that join.
C2_ReturnsJoinWhenItFits ==
    \A t \in Threads :
        ( /\ Accumulated(t)
          /\ EngineExhausted(t)
          /\ Len(ChunksOf(t)) >= 1
          /\ Len(Join(ChunksOf(t))) + 1 <= MAX_PHONEME_BUFFER )
        => result[t].str = Join(ChunksOf(t))

\* ------------------------------------------------------------------- C3
\* C3: when the single-space join of the chunks the engine returned, plus its
\* terminator, exceeds MAX_PHONEME_BUFFER (or the call returned before the
\* engine signalled the end, so that chunks may remain), an overflow message
\* has been logged and the returned string is a strict prefix of that join, or
\* such a prefix with the separator before its last chunk missing.
JoinedPrefix(cs, k) == Join(SubSeq(cs, 1, k))
\* JoinedPrefix(cs, k) without the separator in front of chunk k.
JoinedPrefixMissingSeparator(cs, k) == JoinedPrefix(cs, k - 1) \o cs[k]
C9_EmptyChunkEndsLoop ==
    \A t \in Threads :
        /\ ( /\ pc[t] \in {"loop", "finish", "done"}
             /\ NumConv(t) > 0
             /\ EndOfChunks(ConvRets(t)[NumConv(t)]) )
           => /\ pc[t] # "loop"
              /\ log[t] = <<>>
              /\ DoneTextToPhonemes(t) => result[t].str = Join(ChunksOf(t))
        /\ ( /\ Accumulated(t)
             /\ NumConv(t) > 0
             /\ IsChunk(ConvRets(t)[NumConv(t)])
             /\ text_ptr[t] = "NULL"
             /\ ~Logged(t, MsgOverflow) )
           => LET c == ConvRets(t)[NumConv(t)].str
                  r == result[t].str
              IN Len(r) >= Len(c) /\ SubSeq(r, Len(r) - Len(c) + 1, Len(r)) = c

\* ------------------------------------------------------------------- C7
\* C7: a conversion call runs under a voice its invocation did not select only
\* when the calls are not serialised and another call overlapped the
\* invocation; and the phoneme buffer of a running loop is a block of its own
\* that only its invocation has written.
C7_VoiceSharedBufferLocal ==
    \A t \in Threads :
        /\ foreign[t] => ~serialized /\ overlapped[t]
        /\ pc[t] \in LoopPcs =>
              /\ writers[buffer[t]] = {t}
              /\ \A u \in Threads \ {t} :
                    pc[u] \in LoopPcs => buffer[u] # buffer[t]

\* A conversion has just run under the voice the other invocation selected.
C7_Witness ==
    \E t \in Threads :
        /\ pc[t] = "append"
        /\ foreign[t]
        /\ voice # c_lang[t]
        /\ \E u \in Threads \ {t} : pc[u] \in LoopPcs /\ voice = c_lang[u]

\* ------------------------------------------------------------------- C8
\* C8: when a non-empty chunk arrives and the accumulated length, the separator
\* (if the buffer is not empty), the chunk and the terminator come to more than
\* MAX_PHONEME_BUFFER bytes, the iteration leaves the buffer and current_len as
\* they are, logs the overflow and leaves the loop; and from there the call
\* makes no engine call and returns the buffer's string.
WouldExceed(cl, len) ==
    cl + (IF cl > 0 THEN 1 ELSE 0) + len + 1 > MAX_PHONEME_BUFFER
C8_OverflowStopsAccumulation ==
    [][\A t \in Threads :
          /\ ( /\ pc[t] = "append"
               /\ pc'[t] # "append"
               /\ IsChunk(phonemes[t])
               /\ WouldExceed(current_len[t], Len(phonemes[t].str)) )
             => /\ pc'[t] = "finish"
                /\ heap'[buffer[t]] = heap[buffer[t]]
                /\ current_len'[t] = current_len[t]
                /\ log'[t] = Append(log[t], MsgOverflow)
                /\ ecalls'[t] = ecalls[t]
          /\ ( pc[t] = "finish" /\ pc'[t] # "finish" )
             => /\ pc'[t] = "done"
                /\ ecalls'[t] = ecalls[t]
                /\ log'[t] = log[t]
                /\ result'[t] = NewStringUTF(CString(heap[buffer[t]]))
      ]_vars

C8_Witness ==
    \E t \in Threads :
        LET cs == ChunksOf(t)
        IN /\ Accumulated(t)
           /\ Logged(t, MsgOverflow)
           /\ Len(cs) >= 3
           /\ result[t].str = JoinedPrefix(cs, Len(cs) - 1)
           /\ WouldExceed(Len(result[t].str), Len(cs[Len(cs)]))
           /\ text_ptr[t] = "text"

\* ------------------------------------------------------------------ C10
\* C10: whatever the engine returns, an iteration that goes round the loop
\* again has raised current_len by at least 1, current_len stays below
\* MAX_PHONEME_BUFFER, so the conversion calls of one invocation number at most
\* current_len + 1 and at most MAX_PHONEME_BUFFER, and the loop is left.
C10_LoopTerminates ==
    /\ [](\A t \in Threads :
             pc[t] \in LoopPcs =>
                /\ current_len[t] < MAX_PHONEME_BUFFER
                /\ NumConv(t) <= current_len[t] + 1
                /\ NumConv(t) <= MAX_PHONEME_BUFFER)
    /\ [][\A t \in Threads :
             (pc[t] = "append" /\ pc'[t] = "loop")
                => current_len'[t] >= current_len[t] + 1]_vars
    /\ \A t \in Threads : (pc[t] = "loop") ~> (pc[t] = "done")

\* The engine has returned four chunks and has not set the cursor to NULL.
C10_Witness ==
    \E t \in Threads :
        /\ pc[t] = "loop"
        /\ NumConv(t) >= 4
        /\ text_ptr[t] = "text"

====
